---- MODULE Spec2Model ----
(***************************************************************************)
(* Model of terraform-review-agent/lambda/lambda_function.py: a Lambda     *)
(* handler that normalises Terrascan findings, asks an LLM for a review    *)
(* and maps every outcome to a structured response.                        *)
(*                                                                         *)
(* Python values are tagged records (field ty).  JSON documents are        *)
(*   [ty |-> "null"], [ty |-> "bool", b], [ty |-> "int", i],               *)
(*   [ty |-> "str", s], [ty |-> "list", l], [ty |-> "dict", m]             *)
(* and a raised exception is [ty |-> "raise", exc, msg] where msg is what  *)
(* str(e) yields.                                                          *)
(*                                                                         *)
(* Spec runs whole invocations one after another in one process,           *)
(* SpecRace lets invocations overlap, and SpecExtract applies              *)
(* extract_relevant_findings to each input.                                *)
(***************************************************************************)
EXTENDS Integers, Sequences, FiniteSets, TLC

VARIABLES
    GEMINI_API_KEY,      \* module global, line 10: the cached credential
    event,               \* the request of the latest lambda_handler call
    response,            \* what the latest call to return returned (NoValue before any)
    secretCall,          \* secret-store outcome consumed by that call, or NoCall
    llmCall,             \* LLM endpoint outcome consumed by that call, or NoCall
    invocations,         \* number of lambda_handler calls so far
    secretFetches,       \* number of get_secret_value calls so far
    keyWrites,           \* number of executions of the assignment at line 23
    terrascan_results,   \* argument of extract_relevant_findings (SpecExtract)
    structured,          \* its result (SpecExtract)
    pc,                  \* per-invocation position (SpecRace)
    findings,            \* per-invocation local of lambda_handler (SpecRace)
    secret,              \* per-invocation local of get_gemini_api_key (SpecRace)
    api_key              \* per-invocation local of call_gemini (SpecRace)

vars == <<GEMINI_API_KEY, event, response, secretCall, llmCall, invocations,
          secretFetches, keyWrites, terrascan_results, structured,
          pc, findings, secret, api_key>>

handlerVars == <<event, response, secretCall, llmCall>>
extractVars == <<terrascan_results, structured>>
raceVars == <<pc, findings, secret, api_key>>
counterVars == <<invocations, secretFetches, keyWrites>>

----------------------------------------------------------------------------
(* Bounds of the model *)

\* longest `violations` list among the extractor's inputs
MaxViolations == 2
\* lambda_handler calls per process lifetime
MaxInvocations == 3
\* invocations that may overlap in one process (SpecRace)
MaxThreads == 2

----------------------------------------------------------------------------
(* Python values *)

JNull == [ty |-> "null"]
JBool(b) == [ty |-> "bool", b |-> b]
JInt(n) == [ty |-> "int", i |-> n]
JStr(s) == [ty |-> "str", s |-> s]
JList(q) == [ty |-> "list", l |-> q]
JMap(f) == [ty |-> "dict", m |-> f]

EmptyMap == [k \in {} |-> JNull]

Raise(exc, msg) == [ty |-> "raise", exc |-> exc, msg |-> msg]
IsRaise(x) == x.ty = "raise"

NoValue == [ty |-> "unset"]
NoCall == [kind |-> "none"]

\* type(x).__name__
PyType(x) ==
    CASE x.ty = "null" -> "NoneType"
      [] x.ty = "bool" -> "bool"
      [] x.ty = "int" -> "int"
      [] x.ty = "str" -> "str"
      [] x.ty = "list" -> "list"
      [] x.ty = "dict" -> "dict"

\* bool(x): None, False, 0, "", [] and {} are falsy
Truthy(x) ==
    CASE x.ty = "null" -> FALSE
      [] x.ty = "bool" -> x.b
      [] x.ty = "int" -> x.i # 0
      [] x.ty = "str" -> x.s # ""
      [] x.ty = "list" -> Len(x.l) > 0
      [] x.ty = "dict" -> DOMAIN x.m # {}

\* faulty variant: .get(key) with the default dropped
DictGet_NoDefault(x, key, default) ==
    IF x.ty # "dict"
    THEN Raise("AttributeError", "'" \o PyType(x) \o "' object has no attribute 'get'")
    ELSE IF key \in DOMAIN x.m THEN x.m[key] ELSE JNull

\* x.get(key, default): only dict has the attribute
DictGet(x, key, default) ==
    IF x.ty # "dict"
    THEN Raise("AttributeError", "'" \o PyType(x) \o "' object has no attribute 'get'")
    ELSE IF key \in DOMAIN x.m THEN x.m[key] ELSE default

\* x[key] for a string key or an integer index (index is a Python int >= 0)
Subscript(x, key) ==
    CASE IsRaise(x) -> x
      [] x.ty = "dict" ->
            IF key.ty = "str" /\ key.s \in DOMAIN x.m
            THEN x.m[key.s]
            ELSE Raise("KeyError", IF key.ty = "str" THEN "'" \o key.s \o "'" ELSE "0")
      [] x.ty = "list" ->
            IF key.ty # "int"
            THEN Raise("TypeError", "list indices must be integers or slices, not str")
            ELSE IF key.i + 1 \in 1..Len(x.l)
                 THEN x.l[key.i + 1]
                 ELSE Raise("IndexError", "list index out of range")
      [] x.ty = "str" ->
            IF key.ty # "int"
            THEN Raise("TypeError", "string indices must be integers, not 'str'")
            ELSE IF x.s = ""
                 THEN Raise("IndexError", "string index out of range")
                 ELSE JStr("c")    \* some one-character string
      [] OTHER ->
            Raise("TypeError", "'" \o PyType(x) \o "' object is not subscriptable")

\* iter(x): the list of items a for loop visits, or the TypeError it raises.
\* A non-empty str yields one-character strings and a dict yields its keys; the
\* loop at line 41 stops at the first such item, so one stands for them all.
Iterate(x) ==
    CASE x.ty = "list" -> x
      [] x.ty = "str" -> IF x.s = "" THEN JList(<<>>) ELSE JList(<<JStr("c")>>)
      [] x.ty = "dict" ->
            IF DOMAIN x.m = {} THEN JList(<<>>)
            ELSE JList(<<JStr(CHOOSE k \in DOMAIN x.m : TRUE)>>)
      [] OTHER -> Raise("TypeError", "'" \o PyType(x) \o "' object is not iterable")

----------------------------------------------------------------------------
(* extract_relevant_findings, lines 27-53 *)

ViolationFields ==
    {"rule_id", "rule_name", "severity", "description",
     "resource_type", "resource_name", "file", "line"}

\* faulty variant: v[f] in place of v.get(f)
ViolationEntry_Subscript(v) ==
    IF v.ty # "dict"
    THEN Raise("TypeError", "'" \o PyType(v) \o "' object is not subscriptable")
    ELSE IF ViolationFields \subseteq DOMAIN v.m
         THEN JMap([f \in ViolationFields |-> v.m[f]])
         ELSE Raise("KeyError", "'" \o (CHOOSE f \in ViolationFields : f \notin DOMAIN v.m) \o "'")

\* the dict literal of lines 42-51 for one item v of the loop: v.get(f) is
\* None for a missing key and raises when v is no dict
ViolationEntry(v) ==
    IF v.ty # "dict"
    THEN DictGet(v, "rule_id", JNull)
    ELSE JMap([f \in ViolationFields |-> DictGet(v, f, JNull)])

\* faulty variant: insert(0, ...) in place of append
RECURSIVE AppendViolations_Prepend(_, _, _)
AppendViolations_Prepend(items, i, acc) ==
    IF i > Len(items) THEN JList(acc)
    ELSE LET entry == ViolationEntry(items[i])
         IN  IF IsRaise(entry) THEN entry
             ELSE AppendViolations_Prepend(items, i + 1, <<entry>> \o acc)

\* the loop of lines 41-51: appends in iteration order, stops at the first raise
RECURSIVE AppendViolations(_, _, _)
AppendViolations(items, i, acc) ==
    IF i > Len(items) THEN JList(acc)
    ELSE LET entry == ViolationEntry(items[i])
         IN  IF IsRaise(entry) THEN entry
             ELSE AppendViolations(items, i + 1, Append(acc, entry))

extract_relevant_findings(tr) ==
    LET violations == DictGet(tr, "violations", JList(<<>>))
        summary == DictGet(tr, "scan_summary", JMap(EmptyMap))
        count(k) == DictGet(summary, k, JInt(0))
    IN  IF IsRaise(violations) THEN violations
        ELSE IF IsRaise(count("violated_policies")) THEN count("violated_policies")
        ELSE LET head == JMap([total_violations |-> count("violated_policies"),
                               high |-> count("high"),
                               medium |-> count("medium"),
                               low |-> count("low")])
                 items == Iterate(violations)
             IN  IF IsRaise(items) THEN items
                 ELSE LET out == AppendViolations(items.l, 1, <<>>)
                      IN  IF IsRaise(out) THEN out
                          ELSE JMap([summary |-> head, violations |-> out])

----------------------------------------------------------------------------
(* Inputs of the extractor *)

V_full ==
    JMap([rule_id |-> JStr("AC_AWS_0214"), rule_name |-> JStr("s3Versioning"),
          severity |-> JStr("HIGH"), description |-> JStr("Enable versioning"),
          resource_type |-> JStr("aws_s3_bucket"), resource_name |-> JStr("logs"),
          file |-> JStr("main.tf"), line |-> JInt(12)])
V_partial == JMap([rule_id |-> JStr("AC_AWS_0369"), severity |-> JStr("LOW")])
V_odd ==
    JMap([severity |-> JStr("MEDIUM"), line |-> JNull, file |-> JInt(3),
          category |-> JStr("Logging")])
V_empty == JMap(EmptyMap)

\* items a `violations` list may hold: four mappings and two non-mappings
ViolationItems == {V_full, V_partial, V_odd, V_empty, JInt(7), JNull}

RECURSIVE SeqsUpTo(_, _)
SeqsUpTo(S, n) ==
    IF n = 0 THEN {<<>>}
    ELSE LET shorter == SeqsUpTo(S, n - 1)
         IN  shorter \cup {Append(q, x) : q \in {r \in shorter : Len(r) = n - 1}, x \in S}

\* values of the `violations` key
ViolationsValues ==
    {JList(q) : q \in SeqsUpTo(ViolationItems, MaxViolations)}
      \cup {JNull, JInt(0), JStr(""), JStr("none"), JMap(EmptyMap), JMap([count |-> JInt(1)])}

SummaryCounts ==
    [violated_policies |-> JInt(3), high |-> JInt(1), medium |-> JStr("one"), low |-> JNull]

\* values of the `scan_summary` key
SummaryValues ==
    {JMap([k \in D |-> SummaryCounts[k]]) : D \in SUBSET DOMAIN SummaryCounts}
      \cup {JMap([violated_policies |-> JInt(2), high |-> JInt(2), medium |-> JInt(0),
                  low |-> JInt(0), scan_errors |-> JList(<<>>)]),
            JNull, JInt(3), JStr("none"), JList(<<>>)}

Absent == [ty |-> "absent"]

\* the mapping holding the given keys, a key whose value is Absent left out
MapOf(v, s, extra) ==
    LET all == [violations |-> v, scan_summary |-> s, skipped_violations |-> extra]
    IN  JMap([k \in {x \in DOMAIN all : all[x] # Absent} |-> all[k]])

ExtractInputs ==
    {MapOf(v, s, Absent) : v \in ViolationsValues \cup {Absent}, s \in SummaryValues \cup {Absent}}
      \cup {MapOf(Absent, Absent, JNull), MapOf(JList(<<V_full>>), Absent, JNull)}
      \cup {JNull, JInt(1), JStr("results"), JList(<<V_full>>), JBool(TRUE)}

----------------------------------------------------------------------------
(* Text and bytes: json.loads and bytes.decode *)

\* bytes: the UTF-8 encoding of text s, or a byte string that is no UTF-8
Bytes(s) == [ty |-> "bytes", utf8 |-> TRUE, s |-> s]
BadBytes == [ty |-> "bytes", utf8 |-> FALSE, s |-> "\\xff\\xfe"]

\* b.decode(), line 119
Decode(b) ==
    IF b.utf8 THEN JStr(b.s)
    ELSE Raise("UnicodeDecodeError",
               "'utf-8' codec can't decode byte 0xff in position 0: invalid start byte")

T_secret_k1 == "{\"GEMINI_API_KEY\": \"k1\"}"
T_secret_k2 == "{\"GEMINI_API_KEY\": \"k2\"}"
T_secret_blank == "{\"GEMINI_API_KEY\": \"\"}"
T_secret_other == "{\"API_KEY\": \"k1\"}"
T_secret_list == "[\"k1\"]"
T_secret_plain == "k1"
T_llm_review == "{\"candidates\": [{\"content\": {\"parts\": [{\"text\": \"Verdict: REJECT\"}]}}]}"
T_llm_empty == "{\"candidates\": []}"
T_llm_blocked == "{\"candidates\": [{\"finishReason\": \"SAFETY\"}]}"
T_llm_error == "{\"error\": {\"code\": 429, \"status\": \"RESOURCE_EXHAUSTED\"}}"
T_llm_null == "{\"candidates\": [{\"content\": {\"parts\": [{\"text\": null}]}}]}"
T_llm_list == "[]"
T_llm_html == "<html>Bad Gateway</html>"

\* the documents the texts above denote; a text outside the table is no JSON
JsonDocument(text) ==
    CASE text = T_secret_k1 -> JMap([GEMINI_API_KEY |-> JStr("k1")])
      [] text = T_secret_k2 -> JMap([GEMINI_API_KEY |-> JStr("k2")])
      [] text = T_secret_blank -> JMap([GEMINI_API_KEY |-> JStr("")])
      [] text = T_secret_other -> JMap([API_KEY |-> JStr("k1")])
      [] text = T_secret_list -> JList(<<JStr("k1")>>)
      [] text = T_llm_review ->
            JMap([candidates |-> JList(<<JMap([content |->
                JMap([parts |-> JList(<<JMap([text |-> JStr("Verdict: REJECT")])>>)])])>>)])
      [] text = T_llm_empty -> JMap([candidates |-> JList(<<>>)])
      [] text = T_llm_blocked ->
            JMap([candidates |-> JList(<<JMap([finishReason |-> JStr("SAFETY")])>>)])
      [] text = T_llm_error ->
            JMap([error |-> JMap([code |-> JInt(429), status |-> JStr("RESOURCE_EXHAUSTED")])])
      [] text = T_llm_null ->
            JMap([candidates |-> JList(<<JMap([content |->
                JMap([parts |-> JList(<<JMap([text |-> JNull])>>)])])>>)])
      [] text = T_llm_list -> JList(<<>>)
      [] OTHER -> Raise("JSONDecodeError", "Expecting value: line 1 column 1 (char 0)")

\* json.loads(x) for a str or bytes x (bytes are decoded first)
json_loads(x) ==
    CASE IsRaise(x) -> x
      [] x.ty = "bytes" -> IF x.utf8 THEN JsonDocument(x.s) ELSE Decode(x)
      [] x.ty = "str" -> JsonDocument(x.s)
      [] OTHER -> Raise("TypeError", "the JSON object must be str, bytes or bytearray, not "
                                      \o PyType(x))

----------------------------------------------------------------------------
(* The secret store and get_gemini_api_key, lines 13-24 *)

\* what client.get_secret_value does: raise, or return a response mapping
SecretOutcomes ==
    {[kind |-> "ClientError", msg |-> "AccessDeniedException"]}
      \cup {[kind |-> "ok", response |-> JMap([SecretString |-> JStr(t)])] :
               t \in {T_secret_k1, T_secret_k2, T_secret_blank, T_secret_other,
                      T_secret_list, T_secret_plain}}
      \cup {[kind |-> "ok", response |-> JMap([SecretBinary |-> JStr("azE=")])]}

\* faulty variant: `is not None` in place of truthiness
CacheHit_NotNone(key) == key # JNull

\* faulty variant: the cache is never consulted
CacheHit_Never(key) == FALSE

\* line 16: the cached credential is used when it is truthy
CacheHit(key) == Truthy(key)

\* lines 19-21: the parsed secret, or the exception raised on the way
FetchSecret(so) ==
    IF so.kind = "ClientError" THEN Raise("ClientError", so.msg)
    ELSE json_loads(Subscript(so.response, JStr("SecretString")))

\* line 23, right-hand side
SecretKey(sec) == Subscript(sec, JStr("GEMINI_API_KEY"))

\* the whole function run without interruption: what it returns (ret), the
\* global afterwards (key), whether the store was called and the global written
get_gemini_api_key(key, so) ==
    IF CacheHit(key)
    THEN [ret |-> key, key |-> key, fetched |-> FALSE, wrote |-> FALSE]
    ELSE LET value == SecretKey(FetchSecret(so))
         IN  IF IsRaise(value)
             THEN [ret |-> value, key |-> key, fetched |-> TRUE, wrote |-> FALSE]
             ELSE [ret |-> value, key |-> value, fetched |-> TRUE, wrote |-> TRUE]

----------------------------------------------------------------------------
(* build_prompt, lines 55-87, and call_gemini, lines 90-122 *)

\* the f-string: fixed instructions followed by json.dumps(findings, indent=2)
build_prompt(f) == [ty |-> "str", template |-> "senior DevOps reviewer", findings |-> f]

\* what urlopen(req, timeout=30) does: raise HTTPError carrying a body, raise
\* another error (URLError, timeout), or return a 2xx response with a body
LlmOutcomes ==
    {[kind |-> "HTTPError", body |-> b] : b \in {Bytes(T_llm_error), BadBytes}}
      \cup {[kind |-> "URLError", msg |-> "<urlopen error timed out>"]}
      \cup {[kind |-> "ok", body |-> b] :
               b \in {Bytes(T_llm_review), Bytes(T_llm_empty), Bytes(T_llm_blocked),
                      Bytes(T_llm_null), Bytes(T_llm_list), Bytes(T_llm_html)}}

\* line 116: result["candidates"][0]["content"]["parts"][0]["text"]
FirstText(result) ==
    Subscript(Subscript(Subscript(Subscript(Subscript(Subscript(result,
        JStr("candidates")), JInt(0)), JStr("content")), JStr("parts")), JInt(0)),
        JStr("text"))

\* lines 113-122: the try statement.  An exception raised inside the
\* `except HTTPError` clause (line 119) is not caught by the clause after it.
LlmReply(lo) ==
    CASE lo.kind = "HTTPError" ->
            LET body == Decode(lo.body)
            IN  IF IsRaise(body) THEN body
                ELSE JStr("Gemini API HTTP error: " \o body.s)
      [] lo.kind = "URLError" -> JStr("Unexpected error calling Gemini: " \o lo.msg)
      [] lo.kind = "ok" ->
            LET text == FirstText(json_loads(lo.body))
            IN  IF IsRaise(text)
                THEN JStr("Unexpected error calling Gemini: " \o text.msg)
                ELSE text

\* ret is the returned text or the exception that leaves call_gemini
call_gemini(prompt, key, so, lo) ==
    LET k == get_gemini_api_key(key, so)
    IN  IF IsRaise(k.ret)
        THEN [ret |-> k.ret, key |-> k.key, fetched |-> k.fetched, wrote |-> k.wrote,
              called |-> FALSE]
        ELSE [ret |-> LlmReply(lo), key |-> k.key, fetched |-> k.fetched,
              wrote |-> k.wrote, called |-> TRUE]

----------------------------------------------------------------------------
(* lambda_handler, lines 125-149 *)

MissingResults == [statusCode |-> 400, error |-> "Missing Terrascan results in payload"]
\* faulty variant: a fixed message in place of str(e)
ServerError_Generic(e) == [statusCode |-> 500, error |-> "Internal Server Error"]

ServerError(e) == [statusCode |-> 500, error |-> e.msg]
Success(f, text) ==
    [statusCode |-> 200, verdict_summary |-> Subscript(f, JStr("summary")), ai_review |-> text]

NoExternal(resp, key) ==
    [response |-> resp, key |-> key, fetched |-> FALSE, wrote |-> FALSE, called |-> FALSE]

\* faulty variant: `results is None` in place of `not results`
BeforeReview_NoneOnly(ev) ==
    LET results == DictGet(ev, "results", JNull)
    IN  IF IsRaise(results) THEN ServerError(results)
        ELSE IF results = JNull THEN MissingResults
        ELSE LET f == extract_relevant_findings(results)
             IN  IF IsRaise(f) THEN ServerError(f) ELSE f

\* lines 128-135: the response when the handler returns before call_gemini,
\* otherwise the findings
BeforeReview(ev) ==
    LET results == DictGet(ev, "results", JNull)
    IN  IF IsRaise(results) THEN ServerError(results)
        ELSE IF ~Truthy(results) THEN MissingResults
        ELSE LET f == extract_relevant_findings(results)
             IN  IF IsRaise(f) THEN ServerError(f) ELSE f

\* faulty variant: no try/except around the handler body
AfterReview_NoCatch(f, text) ==
    IF IsRaise(text) THEN text ELSE Success(f, text)

\* lines 139-149: the response once call_gemini has returned or raised
AfterReview(f, text) ==
    IF IsRaise(text) THEN ServerError(text) ELSE Success(f, text)

lambda_handler(ev, key, so, lo) ==
    LET f == BeforeReview(ev)
    IN  IF "statusCode" \in DOMAIN f THEN NoExternal(f, key)
        ELSE LET g == call_gemini(build_prompt(f), key, so, lo)
             IN  [response |-> AfterReview(f, g.ret), key |-> g.key,
                  fetched |-> g.fetched, wrote |-> g.wrote, called |-> g.called]

----------------------------------------------------------------------------
(* Requests *)

FalsyResults == {JNull, JBool(FALSE), JInt(0), JStr(""), JList(<<>>), JMap(EmptyMap)}

MalformedResults == {JStr("violations"), JList(<<V_full>>), JInt(1), JBool(TRUE)}

MappingResults ==
    {MapOf(v, s, Absent) :
        v \in {Absent, JNull, JList(<<V_partial, V_full>>), JList(<<JInt(7)>>)},
        s \in {Absent, JNull, JMap(SummaryCounts)}}
      \ {JMap(EmptyMap)}

Events ==
    {JNull, JList(<<>>), JMap(EmptyMap), JMap([source |-> JStr("ci")])}
      \cup {JMap([results |-> r]) : r \in FalsyResults \cup MalformedResults \cup MappingResults}

----------------------------------------------------------------------------
(* Spec: invocations one after another in one process *)

Init ==
    /\ GEMINI_API_KEY = JNull
    /\ event = NoValue /\ response = NoValue
    /\ secretCall = NoCall /\ llmCall = NoCall
    /\ invocations = 0 /\ secretFetches = 0 /\ keyWrites = 0
    /\ terrascan_results = NoValue /\ structured = NoValue
    /\ pc = <<>> /\ findings = <<>> /\ secret = <<>> /\ api_key = <<>>

\* the outcomes an external call can have when the handler makes it; NoCall
\* when it does not
SecretDraws(ev, key) ==
    IF "statusCode" \in DOMAIN BeforeReview(ev) \/ CacheHit(key)
    THEN {NoCall} ELSE SecretOutcomes

LlmDraws(ev, key, so) ==
    IF so # NoCall /\ IsRaise(SecretKey(FetchSecret(so))) THEN {NoCall}
    ELSE IF "statusCode" \in DOMAIN BeforeReview(ev) THEN {NoCall}
    ELSE LlmOutcomes

\* one whole invocation of lambda_handler on request ev
Invoke(ev) ==
    /\ invocations < MaxInvocations
    /\ \E so \in SecretDraws(ev, GEMINI_API_KEY) :
          \E lo \in LlmDraws(ev, GEMINI_API_KEY, so) :
             LET r == lambda_handler(ev, GEMINI_API_KEY, so, lo)
             IN  /\ GEMINI_API_KEY' = r.key
                 /\ event' = ev
                 /\ response' = r.response
                 /\ secretCall' = IF r.fetched THEN so ELSE NoCall
                 /\ llmCall' = IF r.called THEN lo ELSE NoCall
                 /\ invocations' = invocations + 1
                 /\ secretFetches' = secretFetches + (IF r.fetched THEN 1 ELSE 0)
                 /\ keyWrites' = keyWrites + (IF r.wrote THEN 1 ELSE 0)
    /\ UNCHANGED <<extractVars, raceVars>>

Next == \E ev \in Events : Invoke(ev)

Spec == Init /\ [][Next]_vars

----------------------------------------------------------------------------
(* SpecRace: invocations that overlap in one process.  Each invocation runs *)
(* lambda_handler; other invocations may run between its accesses to the    *)
(* global GEMINI_API_KEY (lines 16, 23, 24) and around its blocking calls.  *)

Threads == 1..MaxThreads

\* The requests and outcomes of the overlapping invocations: one request per
\* handler exit (400, 500, review) and one outcome per way each external call
\* can end, taken from Events, SecretOutcomes and LlmOutcomes.
RaceEvents ==
    {JMap(EmptyMap), JMap([results |-> JStr("violations")]),
     JMap([results |-> MapOf(JList(<<V_partial, V_full>>), JMap(SummaryCounts), Absent)])}

RaceSecretOutcomes ==
    {[kind |-> "ClientError", msg |-> "AccessDeniedException"]}
      \cup {[kind |-> "ok", response |-> JMap([SecretString |-> JStr(t)])] :
               t \in {T_secret_k1, T_secret_k2, T_secret_blank, T_secret_other}}

RaceLlmOutcomes ==
    {[kind |-> "HTTPError", body |-> Bytes(T_llm_error)],
     [kind |-> "ok", body |-> Bytes(T_llm_review)]}

InitRace ==
    /\ GEMINI_API_KEY = JNull
    /\ event = NoValue /\ response = NoValue
    /\ secretCall = NoCall /\ llmCall = NoCall
    /\ invocations = 0 /\ secretFetches = 0 /\ keyWrites = 0
    /\ terrascan_results = NoValue /\ structured = NoValue
    /\ pc = [t \in Threads |-> "idle"]
    /\ findings = [t \in Threads |-> NoValue]
    /\ secret = [t \in Threads |-> NoValue]
    /\ api_key = [t \in Threads |-> NoValue]

\* the invocation returns resp: its locals are gone
Return(t, resp) ==
    /\ response' = resp
    /\ pc' = [pc EXCEPT ![t] = "idle"]
    /\ findings' = [findings EXCEPT ![t] = NoValue]
    /\ secret' = [secret EXCEPT ![t] = NoValue]
    /\ api_key' = [api_key EXCEPT ![t] = NoValue]

\* lines 127-137: up to the call of call_gemini
Begin(t, ev) ==
    /\ pc[t] = "idle"
    /\ invocations < MaxInvocations
    /\ invocations' = invocations + 1
    /\ LET f == BeforeReview(ev)
       IN  IF "statusCode" \in DOMAIN f
           THEN Return(t, f)
           ELSE /\ findings' = [findings EXCEPT ![t] = f]
                /\ pc' = [pc EXCEPT ![t] = "line16"]
                /\ UNCHANGED <<response, secret, api_key>>
    /\ UNCHANGED <<GEMINI_API_KEY, event, secretCall, llmCall, secretFetches, keyWrites,
                   extractVars>>

\* lines 16-17: read the global; return it when truthy
CheckCache(t) ==
    /\ pc[t] = "line16"
    /\ IF CacheHit(GEMINI_API_KEY)
       THEN /\ api_key' = [api_key EXCEPT ![t] = GEMINI_API_KEY]
            /\ pc' = [pc EXCEPT ![t] = "line113"]
       ELSE /\ pc' = [pc EXCEPT ![t] = "line19"]
            /\ UNCHANGED api_key
    /\ UNCHANGED <<GEMINI_API_KEY, handlerVars, counterVars, extractVars, findings, secret>>

\* lines 19-21: the blocking call to the secret store and the parse
Fetch(t, so) ==
    /\ pc[t] = "line19"
    /\ secretFetches' = secretFetches + 1
    /\ LET sec == FetchSecret(so)
       IN  IF IsRaise(sec)
           THEN Return(t, AfterReview(findings[t], sec))
           ELSE /\ secret' = [secret EXCEPT ![t] = sec]
                /\ pc' = [pc EXCEPT ![t] = "line23"]
                /\ UNCHANGED <<response, findings, api_key>>
    /\ UNCHANGED <<GEMINI_API_KEY, event, secretCall, llmCall, invocations, keyWrites,
                   extractVars>>

\* line 23: write the global
Store(t) ==
    /\ pc[t] = "line23"
    /\ LET value == SecretKey(secret[t])
       IN  IF IsRaise(value)
           THEN /\ Return(t, AfterReview(findings[t], value))
                /\ UNCHANGED <<GEMINI_API_KEY, keyWrites>>
           ELSE /\ GEMINI_API_KEY' = value
                /\ keyWrites' = keyWrites + 1
                /\ pc' = [pc EXCEPT ![t] = "line24"]
                /\ UNCHANGED <<response, findings, secret, api_key>>
    /\ UNCHANGED <<event, secretCall, llmCall, invocations, secretFetches, extractVars>>

\* line 24: read the global again and return it
ReturnKey(t) ==
    /\ pc[t] = "line24"
    /\ api_key' = [api_key EXCEPT ![t] = GEMINI_API_KEY]
    /\ pc' = [pc EXCEPT ![t] = "line113"]
    /\ UNCHANGED <<GEMINI_API_KEY, handlerVars, counterVars, extractVars, findings, secret>>

\* lines 93-122 and 139-149: the blocking LLM call, then the handler returns
Urlopen(t, lo) ==
    /\ pc[t] = "line113"
    /\ Return(t, AfterReview(findings[t], LlmReply(lo)))
    /\ UNCHANGED <<GEMINI_API_KEY, event, secretCall, llmCall, counterVars, extractVars>>

NextRace ==
    \E t \in Threads :
        \/ \E ev \in RaceEvents : Begin(t, ev)
        \/ CheckCache(t)
        \/ \E so \in RaceSecretOutcomes : Fetch(t, so)
        \/ Store(t)
        \/ ReturnKey(t)
        \/ \E lo \in RaceLlmOutcomes : Urlopen(t, lo)

SpecRace == InitRace /\ [][NextRace]_vars

----------------------------------------------------------------------------
(* SpecExtract: the extractor applied to each input *)

InitExtract ==
    /\ terrascan_results \in ExtractInputs
    /\ structured = NoValue
    /\ GEMINI_API_KEY = JNull
    /\ event = NoValue /\ response = NoValue
    /\ secretCall = NoCall /\ llmCall = NoCall
    /\ invocations = 0 /\ secretFetches = 0 /\ keyWrites = 0
    /\ pc = <<>> /\ findings = <<>> /\ secret = <<>> /\ api_key = <<>>

Extract ==
    /\ structured = NoValue
    /\ structured' = extract_relevant_findings(terrascan_results)
    /\ UNCHANGED <<terrascan_results, GEMINI_API_KEY, handlerVars, raceVars, counterVars>>

SpecExtract == InitExtract /\ [][Extract]_vars
----------------------------------------------------------------------------
(* Properties *)

\* the request is a mapping whose `results` is absent or falsy
LacksResults(ev) == ev.ty = "dict" /\ ~Truthy(DictGet(ev, "results", JNull))

\* the request is a mapping with truthy `results`
HasResults(ev) == ev.ty = "dict" /\ Truthy(DictGet(ev, "results", JNull))

\* the request passes the presence check and extraction: call_gemini is called
ReachesReview(ev) ==
    HasResults(ev) /\ ~IsRaise(extract_relevant_findings(ev.m["results"]))

\* the secret retrieval of the latest invocation failed
SecretFailed == secretCall # NoCall /\ IsRaise(SecretKey(FetchSecret(secretCall)))

\* scanner output of the documented shape: a mapping whose `violations`, when
\* present, is a sequence of mappings and whose `scan_summary`, when present,
\* is a mapping
WellFormed(tr) ==
    /\ tr.ty = "dict"
    /\ "violations" \in DOMAIN tr.m =>
          /\ tr.m["violations"].ty = "list"
          /\ \A i \in 1..Len(tr.m["violations"].l) : tr.m["violations"].l[i].ty = "dict"
    /\ "scan_summary" \in DOMAIN tr.m => tr.m["scan_summary"].ty = "dict"

\* a Findings value: summary of the four counts, violations of eight fields each
IsFindings(x) ==
    /\ x.ty = "dict" /\ DOMAIN x.m = {"summary", "violations"}
    /\ x.m["summary"].ty = "dict"
    /\ DOMAIN x.m["summary"].m = {"total_violations", "high", "medium", "low"}
    /\ x.m["violations"].ty = "list"
    /\ \A i \in 1..Len(x.m["violations"].l) :
          /\ x.m["violations"].l[i].ty = "dict"
          /\ DOMAIN x.m["violations"].l[i].m = ViolationFields

\* the LLM call of the latest invocation failed: non-2xx, network error, or a
\* body without the candidates/parts/text shape
LlmFailed ==
    /\ llmCall # NoCall
    /\ \/ llmCall.kind \in {"HTTPError", "URLError"}
       \/ llmCall.kind = "ok" /\ IsRaise(FirstText(json_loads(llmCall.body)))

\* C1: every invocation ends in a structured response whose statusCode is
\* 200, 400 or 500; no exception leaves lambda_handler.
C1_AlwaysResponds ==
    invocations > 0 =>
        /\ "statusCode" \in DOMAIN response
        /\ response.statusCode \in {200, 400, 500}
        /\ response.statusCode = 200 =>
              DOMAIN response = {"statusCode", "verdict_summary", "ai_review"}
        /\ response.statusCode # 200 => DOMAIN response = {"statusCode", "error"}

\* an invocation whose secret retrieval failed returned 500
C1_Witness ==
    /\ invocations > 0
    /\ secretCall # NoCall /\ secretCall.kind = "ClientError"
    /\ response.statusCode = 500

\* C2 (as claimed, for the secret store): an invocation whose secret retrieval
\* failed still ends in statusCode 200, with the error description as
\* ai_review: call_gemini returns text and raises nothing to the handler.
C2_ExternalErrorsCaptured ==
    (invocations > 0 /\ SecretFailed) =>
        /\ response.statusCode = 200
        /\ response.ai_review.ty = "str"

\* C3 (as claimed): the secret store is fetched at most once per process.
C3_FetchedAtMostOnce == secretFetches <= 1

\* C3 (amended): a use that finds no truthy cached credential fetches; once a
\* truthy credential is cached no invocation fetches or rewrites it.
C3_FetchOnceCached ==
    [][/\ Truthy(GEMINI_API_KEY) =>
             secretFetches' = secretFetches /\ GEMINI_API_KEY' = GEMINI_API_KEY
       /\ (~Truthy(GEMINI_API_KEY) /\ ReachesReview(event')) =>
             secretFetches' = secretFetches + 1 /\ secretCall' # NoCall
      ]_vars

C3_Witness ==
    /\ invocations >= 2 /\ secretFetches = 1
    /\ Truthy(GEMINI_API_KEY)
    /\ secretCall = NoCall /\ llmCall # NoCall
    /\ response.statusCode = 200

\* C4: a request whose `results` is absent or falsy gets the 400 response with
\* the fixed message, and the invocation makes no secret-store fetch and no
\* LLM request and leaves the cached credential as it was.
C4_MissingResults ==
    [][LacksResults(event') =>
          /\ response'.statusCode = 400
          /\ response'.error = "Missing Terrascan results in payload"
          /\ DOMAIN response' = {"statusCode", "error"}
          /\ secretCall' = NoCall /\ llmCall' = NoCall
          /\ secretFetches' = secretFetches /\ keyWrites' = keyWrites
          /\ GEMINI_API_KEY' = GEMINI_API_KEY
      ]_vars

C4_Witness ==
    /\ event = JMap([results |-> JMap(EmptyMap)])
    /\ response.statusCode = 400
    /\ Truthy(GEMINI_API_KEY) /\ secretFetches = 1 /\ invocations = 2

\* C5 (as claimed): with valid `results`, a failed LLM call still ends in
\* statusCode 200 with the extracted summary and an error description as
\* ai_review.
C5_LlmFailureIs200 ==
    (invocations > 0 /\ HasResults(event) /\ LlmFailed) =>
        /\ response.statusCode = 200
        /\ response.verdict_summary =
              extract_relevant_findings(event.m["results"]).m["summary"]
        /\ response.ai_review.ty = "str"
        /\ response.ai_review # JStr("Verdict: REJECT")

\* C6 (as claimed): on any mapping input, whatever JSON values `violations`
\* and `scan_summary` hold, the extractor returns Findings and never raises.
C6_TotalOnAnyMapping ==
    (structured # NoValue /\ terrascan_results.ty = "dict") => IsFindings(structured)

\* C6 (amended): on any mapping input whose `violations` is absent or a
\* sequence of mappings and whose `scan_summary` is absent or a mapping, with
\* any sub-field absent or holding any JSON value, the extractor returns
\* Findings and never raises.
C6_TotalOnWellFormed ==
    (structured # NoValue /\ WellFormed(terrascan_results)) => IsFindings(structured)

C6_Witness ==
    /\ terrascan_results = MapOf(JList(<<V_odd, V_empty>>), JMap([high |-> JInt(1)]), Absent)
    /\ IsFindings(structured)

\* C7: when extraction raises on the request's `results`, the response is 500
\* and its error is the description of that exception.
C7_ExtractionFault ==
    (invocations > 0 /\ HasResults(event)
       /\ IsRaise(extract_relevant_findings(event.m["results"]))) =>
        /\ response.statusCode = 500
        /\ DOMAIN response = {"statusCode", "error"}
        /\ response.error = extract_relevant_findings(event.m["results"]).msg
        /\ event.m["results"].ty # "dict" =>
              response.error = "'" \o PyType(event.m["results"])
                                   \o "' object has no attribute 'get'"

C7_Witness ==
    /\ event = JMap([results |-> JStr("violations")])
    /\ response.statusCode = 500
    /\ response.error = "'str' object has no attribute 'get'"

\* C8: the output violations are the input violations in input order, one for
\* one: same length, and entry i holds exactly the eight fields, each with the
\* value input violation i has for it, or null when it has none.
C8_OrderPreserving ==
    (structured # NoValue /\ WellFormed(terrascan_results)
       /\ "violations" \in DOMAIN terrascan_results.m) =>
        LET in == terrascan_results.m["violations"].l
            out == structured.m["violations"].l
        IN  /\ ~IsRaise(structured)
            /\ Len(out) = Len(in)
            /\ \A i \in 1..Len(in) :
                  /\ DOMAIN out[i].m = ViolationFields
                  /\ \A f \in ViolationFields :
                        out[i].m[f] = IF f \in DOMAIN in[i].m THEN in[i].m[f] ELSE JNull

C8_Witness ==
    /\ terrascan_results = MapOf(JList(<<V_partial, V_full>>), Absent, Absent)
    /\ structured # NoValue
    /\ Len(structured.m["violations"].l) = 2
    /\ structured.m["violations"].l[1].m["rule_id"] = JStr("AC_AWS_0369")
    /\ structured.m["violations"].l[1].m["file"] = JNull
    /\ structured.m["violations"].l[2] = V_full

\* C9: a well-formed input without `scan_summary` gives the all-zero summary;
\* a well-formed input without `violations` gives an empty violation sequence.
C9_Defaults ==
    (structured # NoValue /\ WellFormed(terrascan_results)) =>
        /\ ~IsRaise(structured)
        /\ "scan_summary" \notin DOMAIN terrascan_results.m =>
              structured.m["summary"] =
                  JMap([total_violations |-> JInt(0), high |-> JInt(0),
                        medium |-> JInt(0), low |-> JInt(0)])
        /\ "violations" \notin DOMAIN terrascan_results.m =>
              structured.m["violations"] = JList(<<>>)

C9_Witness ==
    /\ terrascan_results = MapOf(Absent, Absent, JNull)
    /\ structured # NoValue
    /\ structured.m["violations"] = JList(<<>>)
    /\ structured.m["summary"].m["total_violations"] = JInt(0)

\* C10 (as claimed): under every interleaving, once the cache holds a
\* credential it is only read: no later step writes it.
C10_WrittenOnce == [][Truthy(GEMINI_API_KEY) => keyWrites' = keyWrites]_vars

\* C10 (amended): an invocation that reads a truthy cached credential at its
\* check (line 16) uses it and neither fetches nor writes; the cache is
\* written only by invocations whose check came before a truthy credential
\* was stored, each at most once.
C10_ReadAfterCached ==
    [][/\ \A t \in Threads :
          /\ (Truthy(GEMINI_API_KEY) /\ pc[t] = "line16" /\ pc'[t] # "line16") =>
                /\ pc'[t] = "line113" /\ api_key'[t] = GEMINI_API_KEY
                /\ GEMINI_API_KEY' = GEMINI_API_KEY
                /\ secretFetches' = secretFetches /\ keyWrites' = keyWrites
          /\ (pc[t] = "line16" /\ pc'[t] = "line19") => ~Truthy(GEMINI_API_KEY)
          /\ (pc[t] = "line113" /\ pc'[t] = "idle") =>
                GEMINI_API_KEY' = GEMINI_API_KEY /\ keyWrites' = keyWrites
       /\ (keyWrites' # keyWrites \/ GEMINI_API_KEY' # GEMINI_API_KEY) =>
             /\ keyWrites' = keyWrites + 1
             /\ \E t \in Threads : pc[t] = "line23" /\ pc'[t] = "line24"
      ]_vars

\* after two racing fetches both wrote, a third invocation reads the cache
C10_Witness ==
    /\ keyWrites = 2 /\ secretFetches = 2 /\ invocations = 3
    /\ Truthy(GEMINI_API_KEY)
    /\ \E t \in Threads :
          /\ pc[t] = "line113" /\ api_key[t] = GEMINI_API_KEY
          /\ \A u \in Threads \ {t} : pc[u] = "idle"
====
